---- MODULE Spec2Model ----
(***************************************************************************)
(* Model of the PDF RAG agent: the two Inngest functions of main.py        *)
(* (rag_ingest_pdf, rag_query_pdf_ai), the Qdrant store of vector_db.py    *)
(* and the dashboard's event senders and poller of streamlit_app.py.       *)
(*                                                                         *)
(* Strings that the code takes apart or builds (source ids, paths, the     *)
(* uuid5 name) are sequences of one-character strings.  Embedding vectors  *)
(* are two-component integer vectors of equal norm, so that cosine         *)
(* similarity orders points as the dot product does.                       *)
(***************************************************************************)
EXTENDS Integers, Sequences, FiniteSets, TLC

VARIABLES now, ticks, fs, collection, runs

vars == <<now, ticks, fs, collection, runs>>

(* ------------------------------ bounds --------------------------------- *)
MaxRuns == 2
MaxIngests == 2
MaxQueries == 1
MaxPolled == 1
MaxStored == 2
MaxTicks == 1
MaxTopK == 2
Retries == 1
MaxScenario == 2

(* --------------------------- program constants ------------------------- *)
EmbedDims == 384
StoreDims == 384
\* The dimensionality of a collection that was created for another embedder.
OtherDims == 2 * StoreDims
DefaultTopK == 5
PollTimeout == 120
ThrottleCount == 2
ThrottlePeriod == 60
RateLimitLimit == 1
RateLimitPeriod == 7200

\* The events of the admission scenario: as many as the throttle would admit
\* in a minute, and three more.
MaxEvents == ThrottleCount + 3

\* Optional values (a key of event.data that may be absent, a keyword
\* argument that may not be passed): None is <<>>, a value x is <<x>>.
None == <<>>
Some(x) == <<x>>
NoFile == [exists |-> FALSE, chunks |-> <<>>]
File(chunks) == [exists |-> TRUE, chunks |-> chunks]
NoCollection == [exists |-> FALSE, dims |-> 0, points |-> <<>>]
\* A run's output before it has one (null), and the poller's {}.
Null == [null |-> TRUE]
EmptyDict == [empty |-> TRUE]

(* ------------------------------ inputs --------------------------------- *)
NameSeq == <<<<"a">>, <<"b">>, <<"c">>, <<"d">>, <<"e">>>>
AllNames == {NameSeq[i] : i \in DOMAIN NameSeq}
Names == {NameSeq[1], NameSeq[2]}
Docs == {<<"t1">>, <<"t2", "t3">>}
Questions == {"q1", "q2"}
\* Steps of the clock, in seconds: ten seconds, the throttle's minute, the
\* rate limit's two hours.
Delays == {10, ThrottlePeriod, RateLimitPeriod}

Range(s) == {s[i] : i \in DOMAIN s}

(* -------------------------- data_loader.py ----------------------------- *)
\* load_and_chunk_pdf: the chunk list of a file is its stored content; the
\* splitter drops empty chunks, so every chunk text is non-empty.
load_and_chunk_pdf(path) == fs[path].chunks

\* model.encode: one unit-norm vector per text (all-MiniLM-L6-v2 normalises).
Embedding(text) ==
    CASE text = "t1" -> <<5, 0>>
      [] text = "t2" -> <<4, 3>>
      [] text = "t3" -> <<0, 5>>
      [] text = "q1" -> <<5, 0>>
      [] text = "q2" -> <<3, 4>>
      [] OTHER -> <<0, 0>>

embed_texts(texts) == [i \in DOMAIN texts |-> Embedding(texts[i])]

(* ------------------------- identity of a point ------------------------- *)
Digit(d) ==
    CASE d = 0 -> "0" [] d = 1 -> "1" [] d = 2 -> "2" [] d = 3 -> "3"
      [] d = 4 -> "4" [] d = 5 -> "5" [] d = 6 -> "6" [] d = 7 -> "7"
      [] d = 8 -> "8" [] d = 9 -> "9"

\* str(i) of a non-negative integer: its decimal digits.
RECURSIVE Str(_)
Str(i) == IF i < 10 THEN <<Digit(i)>> ELSE Str(i \div 10) \o <<Digit(i % 10)>>

\* f"{source_id}:{i}"
Format(source_id, i) == source_id \o <<":">> \o Str(i)

NAMESPACE_URL == "6ba7b811-9dad-11d1-80b4-00c04fd430c8"

\* uuid.uuid5: a hash of (namespace, name), taken to be free of collisions.
uuid5(namespace, name) == <<"uuid5", namespace, name>>

PointIdNoIndex(source_id, i) == uuid5(NAMESPACE_URL, source_id)

PointIdFresh(source_id, i) ==
    uuid5(NAMESPACE_URL,
          Format(source_id,
                 i + Cardinality(DOMAIN collection.points)))

\* main.py line 85: the id of chunk i of a source.
PointId(source_id, i) == uuid5(NAMESPACE_URL, Format(source_id, i))

Ids(source_id, chunks) == [i \in DOMAIN chunks |-> PointId(source_id, i - 1)]

\* main.py line 88
Payloads(source_id, chunks) ==
    [i \in DOMAIN chunks |-> [source |-> source_id, text |-> chunks[i]]]

(* ----------------------------- vector_db.py ---------------------------- *)
create_collection(dims) == [exists |-> TRUE, dims |-> dims, points |-> <<>>]

\* upsert_vectors building its points over range(len(ids) - 1): the last
\* chunk's point is never sent.
upsert_vectors_short(points, ids, vectors, payloads) ==
    LET new == {ids[i] : i \in 1..(Len(ids) - 1)}
    IN  [id \in DOMAIN points \cup new |->
            IF id \in new
            THEN LET i == CHOOSE j \in 1..(Len(ids) - 1) : ids[j] = id
                 IN  [vector |-> vectors[i], payload |-> payloads[i]]
            ELSE points[id]]

\* upsert_vectors replacing a source: the points that carry the source of
\* the new payloads are removed before the new ones are written.
upsert_vectors_replacing(points, ids, vectors, payloads) ==
    LET new == Range(ids)
        replaced == {payloads[i].source : i \in DOMAIN payloads}
        kept == {id \in DOMAIN points : points[id].payload.source \notin replaced}
    IN  [id \in kept \cup new |->
            IF id \in new
            THEN LET i == CHOOSE j \in DOMAIN ids : ids[j] = id
                 IN  [vector |-> vectors[i], payload |-> payloads[i]]
            ELSE points[id]]

\* client.upsert: insert or replace by id; within a batch the last entry of
\* an id is the one kept.
upsert_vectors(points, ids, vectors, payloads) ==
    LET new == Range(ids)
        last(id) == CHOOSE i \in DOMAIN ids :
                        /\ ids[i] = id
                        /\ \A j \in DOMAIN ids : ids[j] = id => j <= i
    IN  [id \in DOMAIN points \cup new |->
            IF id \in new
            THEN [vector |-> vectors[last(id)], payload |-> payloads[last(id)]]
            ELSE points[id]]

Dot(u, v) == u[1] * v[1] + u[2] * v[2]

Score(points, id, query_vector) == Dot(points[id].vector, query_vector)

CandidatesFiltered(points, filter) ==
    IF filter = None THEN DOMAIN points
    ELSE {id \in DOMAIN points : points[id].payload.source = filter[1]}

\* The points a search may consider: search_vectors passes no filter.
Candidates(points, filter) == DOMAIN points

RECURSIVE RankedAscending(_, _, _, _)
RankedAscending(points, S, query_vector, k) ==
    IF k <= 0 \/ S = {} THEN {<<>>}
    ELSE LET worst == {id \in S : \A o \in S :
                          Score(points, id, query_vector) <= Score(points, o, query_vector)}
         IN  UNION {{<<id>> \o r : r \in RankedAscending(points, S \ {id}, query_vector, k - 1)}
                    : id \in worst}

\* client.search(limit = top_k): the rankings of the top_k best points,
\* best first; points of equal score come in either order.
RECURSIVE Ranked(_, _, _, _)
Ranked(points, S, query_vector, k) ==
    IF k <= 0 \/ S = {} THEN {<<>>}
    ELSE LET best == {id \in S : \A o \in S :
                         Score(points, o, query_vector) <= Score(points, id, query_vector)}
         IN  UNION {{<<id>> \o r : r \in Ranked(points, S \ {id}, query_vector, k - 1)}
                    : id \in best}

\* One scored point of the result list, as client.search returns it.
Hit(points, id, query_vector) ==
    [id |-> id, score |-> Score(points, id, query_vector), payload |-> points[id].payload]

\* The loop of search_vectors over results: texts in result order, empty
\* texts skipped; sources of the kept results, empty sources skipped.
ContextsUnique(results) ==
    LET kept == SelectSeq(results, LAMBDA res : res.payload.text # "")
        first == {i \in DOMAIN kept :
                     \A j \in DOMAIN kept : kept[j].payload.text = kept[i].payload.text => i <= j}
        Pick[i \in 0..Len(kept)] ==
            IF i = 0 THEN <<>>
            ELSE IF i \in first THEN Append(Pick[i - 1], kept[i].payload.text)
            ELSE Pick[i - 1]
    IN  Pick[Len(kept)]

Contexts(results) ==
    LET kept == SelectSeq(results, LAMBDA res : res.payload.text # "")
    IN  [i \in DOMAIN kept |-> kept[i].payload.text]

Sources(results) ==
    {results[i].payload.source : i \in {j \in DOMAIN results :
        results[j].payload.text # "" /\ results[j].payload.source # <<>>}}

(* ------------------------ the Inngest functions ------------------------ *)
LoadStep == "Load and Chunk PDF"
UpsertStep == "Embed-and-upsert"
SearchStep == "Embed-and-search"

\* The ctx.step.run calls of a function, in the order of its body.
Pipeline(fn) == IF fn = "ingest" THEN <<LoadStep, UpsertStep>> ELSE <<SearchStep>>

NextStepNoMemo(run) == Some(Pipeline(run.fn)[1])

\* ctx.step.run: a step whose result is memoized returns it without running
\* its handler; the step to run is the first one of the body with no memoized
\* result (None when every step has one).
NextStep(run) ==
    LET todo == {i \in DOMAIN Pipeline(run.fn) : Pipeline(run.fn)[i] \notin DOMAIN run.memo}
    IN  IF todo = {} THEN None
        ELSE Some(Pipeline(run.fn)[CHOOSE i \in todo : \A j \in todo : i <= j])

\* Registration of rag_ingest_pdf: no throttle and no rate_limit is passed.
ThrottleEnabled == Some([count |-> ThrottleCount, period |-> ThrottlePeriod])

throttle == None

RateLimitEnabled == Some([limit |-> RateLimitLimit, period |-> RateLimitPeriod])

rate_limit == None

\* key = "event.data.source_id"
Key(run) == run.data.source_id

Started(r) == runs[r].started >= 0

StartedWithin(period, keys) ==
    {o \in DOMAIN runs : /\ runs[o].fn = "ingest"
                         /\ Started(o)
                         /\ Key(runs[o]) \in keys
                         /\ now - runs[o].started < period}

Keys == {None} \cup {Some(n) : n \in AllNames}

\* Throttle: a limit on the ingest runs started per period, all keys together.
ThrottleOK(r) ==
    IF throttle = None \/ runs[r].fn # "ingest" THEN TRUE
    ELSE Cardinality(StartedWithin(throttle[1].period, Keys)) < throttle[1].count

\* Rate limit: a limit on the ingest runs started per period for one key.
RateLimitOK(r) ==
    IF rate_limit = None \/ runs[r].fn # "ingest" THEN TRUE
    ELSE Cardinality(StartedWithin(rate_limit[1].period, {Key(runs[r])}))
             < rate_limit[1].limit

Path(name) == <<"/">> \o name
Paths == {Path(n) : n \in Names}

\* An event's run, before the function is first invoked.  ids and results
\* keep the last values of the locals of _upsert and search_vectors; execs
\* counts the executions of each step's handler; sent is the start_time of
\* the poller of a query event.
NewRun(fn, data) ==
    [fn |-> fn, data |-> data, sent |-> IF fn = "query" THEN now ELSE 0, started |-> -1, status |-> "Pending",
     memo |-> <<>>, attempts |-> 0, sub |-> "begin", execs |-> <<>>,
     ids |-> <<>>, results |-> <<>>, output |-> Null,
     poll |-> IF fn = "query" THEN "polling" ELSE "none", polled |-> Null]

Init ==
    /\ now = 0
    /\ ticks = 0
    /\ fs = [p \in Paths |-> NoFile]
    /\ collection \in {NoCollection, create_collection(StoreDims), create_collection(OtherDims)}
    /\ runs = <<>>

(* ------------------------------ senders -------------------------------- *)
CanSend(limit) == Len(runs) < limit

\* streamlit_app.py, "Ingest Document": save_temp_file, then
\* trigger_ingest_event with source_id = the file's name.
UploadAndIngest(name, chunks, limit) ==
    /\ CanSend(limit)
    /\ fs' = [fs EXCEPT ![Path(name)] = File(chunks)]
    /\ runs' = Append(runs, NewRun("ingest",
                   [pdf_path |-> Path(name), source_id |-> Some(name)]))
    /\ UNCHANGED <<now, ticks, collection>>

\* A rag/ingest_pdf event from any sender: source_id is optional and the
\* path may or may not exist.
SendIngestEvent(name, source_id, limit) ==
    /\ CanSend(limit)
    /\ runs' = Append(runs, NewRun("ingest",
                   [pdf_path |-> Path(name), source_id |-> source_id]))
    /\ UNCHANGED <<now, ticks, fs, collection>>

\* trigger_query_event; source_id is a key of event.data that
\* rag_query_pdf_ai does not read.
SendQueryEvent(question, top_k, source_id, limit) ==
    /\ CanSend(limit)
    /\ runs' = Append(runs, NewRun("query",
                   [question |-> question, top_k |-> top_k, source_id |-> source_id]))
    /\ UNCHANGED <<now, ticks, fs, collection>>

(* ------------------------------ the runs ------------------------------- *)
Running(r) == r \in DOMAIN runs /\ runs[r].status = "Running"

AtStep(r, step) == Running(r) /\ NextStep(runs[r]) = Some(step)

Count(run, step) == IF step \in DOMAIN run.execs THEN run.execs[step] ELSE 0

Executing(run, step) == [run EXCEPT !.execs = (step :> (Count(run, step) + 1)) @@ @]

\* A raised exception: Inngest runs the step again until the retries are
\* used up, and then fails the run.
StepFails(run) ==
    IF run.attempts < Retries
    THEN [run EXCEPT !.attempts = @ + 1, !.sub = "begin"]
    ELSE [run EXCEPT !.status = "Failed", !.sub = "begin"]

StepDone(run, step, result) ==
    [run EXCEPT !.memo = (step :> result) @@ @, !.attempts = 0, !.sub = "begin"]

\* The event is admitted and the function is invoked for the first time.
Start(r) ==
    /\ r \in DOMAIN runs
    /\ runs[r].status = "Pending"
    /\ ThrottleOK(r)
    /\ RateLimitOK(r)
    /\ runs' = [runs EXCEPT ![r].status = "Running", ![r].started = now]
    /\ UNCHANGED <<now, ticks, fs, collection>>

\* _load
Load(r) ==
    /\ AtStep(r, LoadStep)
    /\ runs[r].fn = "ingest"
    /\ LET run == Executing(runs[r], LoadStep)
           pdf_path == run.data.pdf_path
           source_id == IF run.data.source_id = None THEN pdf_path
                        ELSE run.data.source_id[1]
       IN  runs' = [runs EXCEPT ![r] =
               IF ~fs[pdf_path].exists
               THEN StepFails(run)
               ELSE StepDone(run, LoadStep,
                        [chunks |-> load_and_chunk_pdf(pdf_path), sources_id |-> source_id])]
    /\ UNCHANGED <<now, ticks, fs, collection>>

\* QdrantStorage.__init__ when collection_exists answers true: the body of
\* the if is skipped, dims is compared with nothing, the constructor returns.
RecreateOnMismatch(coll, dims) ==
    [ok |-> TRUE,
     collection |-> IF coll.dims # dims THEN create_collection(dims) ELSE coll]

WhenExists(coll, dims) == [ok |-> TRUE, collection |-> coll]

\* QdrantStorage.__init__ when collection_exists answered false: the
\* create_collection call, which the store refuses (the constructor raises)
\* when the collection exists by now.
WhenAbsent(coll, dims) ==
    IF coll.exists
    THEN [ok |-> FALSE, collection |-> coll]
    ELSE [ok |-> TRUE, collection |-> create_collection(dims)]

\* QdrantStorage(dims=384), up to and including the collection_exists check.
OpenStore(r) ==
    /\ AtStep(r, UpsertStep) \/ AtStep(r, SearchStep)
    /\ runs[r].sub = "begin"
    /\ LET run == Executing(runs[r], NextStep(runs[r])[1])
           res == WhenExists(collection, StoreDims)
       IN  IF collection.exists
           THEN /\ collection' = res.collection
                /\ runs' = [runs EXCEPT ![r] =
                       IF res.ok THEN [run EXCEPT !.sub = "opened"] ELSE StepFails(run)]
           ELSE /\ collection' = collection
                /\ runs' = [runs EXCEPT ![r] = [run EXCEPT !.sub = "create"]]
    /\ UNCHANGED <<now, ticks, fs>>

\* QdrantStorage(dims=384), the create_collection call.
CreateCollection(r) ==
    /\ AtStep(r, UpsertStep) \/ AtStep(r, SearchStep)
    /\ runs[r].sub = "create"
    /\ LET res == WhenAbsent(collection, StoreDims)
       IN  /\ collection' = res.collection
           /\ runs' = [runs EXCEPT ![r] =
                  IF res.ok THEN [runs[r] EXCEPT !.sub = "opened"]
                  ELSE StepFails(runs[r])]
    /\ UNCHANGED <<now, ticks, fs>>

\* _upsert after the store is open: upsert_vectors and the returned count.
\* The store rejects vectors whose size is not the collection's, and the
\* call may fail in transport (fault).
Upsert(r, fault) ==
    /\ AtStep(r, UpsertStep)
    /\ runs[r].sub = "opened"
    /\ LET run == runs[r]
           chunks == run.memo[LoadStep].chunks
           source_id == run.memo[LoadStep].sources_id
           vecs == embed_texts(chunks)
           ids == Ids(source_id, chunks)
           payloads == Payloads(source_id, chunks)
       IN  IF fault \/ collection.dims # EmbedDims
           THEN /\ runs' = [runs EXCEPT ![r] = StepFails([run EXCEPT !.ids = ids])]
                /\ collection' = collection
           ELSE /\ collection' = [collection EXCEPT
                       !.points = upsert_vectors(@, ids, vecs, payloads)]
                /\ runs' = [runs EXCEPT ![r] =
                       [StepDone([run EXCEPT !.ids = ids], UpsertStep,
                                 [ingested |-> Len(chunks)])
                        EXCEPT !.status = "Completed",
                               !.output = [ingested |-> Len(chunks)]]]
    /\ UNCHANGED <<now, ticks, fs>>

TopK(data) == IF data.top_k = None THEN DefaultTopK ELSE data.top_k[1]

\* _search after the store is open: search_vectors(query_vec, top_k).
Search(r) ==
    /\ AtStep(r, SearchStep)
    /\ runs[r].sub = "opened"
    /\ LET run == runs[r]
           query_vec == embed_texts(<<run.data.question>>)[1]
           points == collection.points
       IN  IF collection.dims # EmbedDims
           THEN runs' = [runs EXCEPT ![r] = StepFails(run)]
           ELSE \E ranking \in Ranked(points, Candidates(points, run.data.source_id),
                                      query_vec, TopK(run.data)) :
                    LET results == [i \in DOMAIN ranking |-> Hit(points, ranking[i], query_vec)]
                    IN  runs' = [runs EXCEPT ![r] =
                            StepDone([run EXCEPT !.results = results], SearchStep,
                                     [contexts |-> Contexts(results),
                                      sources |-> Sources(results)])]
    /\ UNCHANGED <<now, ticks, fs, collection>>

\* The body of rag_query_pdf_ai after the step: the call of the language
\* model, which may raise (fault), and the returned record.
Answer(r, fault) ==
    /\ Running(r)
    /\ runs[r].fn = "query"
    /\ NextStep(runs[r]) = None
    /\ LET run == runs[r]
           found == run.memo[SearchStep]
       IN  runs' = [runs EXCEPT ![r] =
               IF fault THEN StepFails(run)
               ELSE [run EXCEPT !.status = "Completed", !.attempts = 0,
                                !.output = [answer |-> "answer",
                                            sources |-> found.sources,
                                            num_contexts |-> Len(found.contexts)]]]
    /\ UNCHANGED <<now, ticks, fs, collection>>

(* ------------------------------ the poller ----------------------------- *)
CompletedStatuses == {"Completed", "Succeeded", "Finished", "Success"}
FailedStatuses == {"Failed", "Cancelled"}

poll_any_status(fetched, elapsed) ==
    IF fetched # <<>>
    THEN [poll |-> "returned",
          polled |-> IF fetched[1].output = Null THEN EmptyDict ELSE fetched[1].output]
    ELSE IF elapsed > PollTimeout
    THEN [poll |-> "TimeoutError", polled |-> [error |-> None]]
    ELSE [poll |-> "polling", polled |-> Null]

\* fetch_run_data: the runs of the event; none before the event is admitted.
fetch_run_data(run) == IF run.status = "Pending" THEN <<>> ELSE <<run>>

\* One pass of the loop of poll_for_output.
poll_for_output(fetched, elapsed) ==
    LET status == IF fetched # <<>> THEN Some(fetched[1].status) ELSE None
    IN  IF fetched # <<>> /\ status[1] \in CompletedStatuses
        THEN [poll |-> "returned",
              polled |-> IF fetched[1].output = Null THEN EmptyDict ELSE fetched[1].output]
        ELSE IF fetched # <<>> /\ status[1] \in FailedStatuses
        THEN [poll |-> "RuntimeError", polled |-> [error |-> status]]
        ELSE IF elapsed > PollTimeout
        THEN [poll |-> "TimeoutError", polled |-> [error |-> status]]
        ELSE [poll |-> "polling", polled |-> Null]

Poll(r) ==
    /\ r \in DOMAIN runs
    /\ runs[r].poll = "polling"
    /\ LET out == poll_for_output(fetch_run_data(runs[r]), now - runs[r].sent)
       IN  /\ out.poll # "polling"
           /\ runs' = [runs EXCEPT ![r].poll = out.poll, ![r].polled = out.polled]
    /\ UNCHANGED <<now, ticks, fs, collection>>

\* Time passes.
Tick(d) ==
    /\ ticks < MaxTicks
    /\ ticks' = ticks + 1
    /\ now' = now + d
    /\ UNCHANGED <<fs, collection, runs>>

TopKChoices == {None} \cup {Some(t) : t \in 1..MaxTopK}
Filters == {None} \cup {Some(n) : n \in Names}

\* Both pipelines, runs of either function side by side, for one document
\* and one question.
Next ==
    \/ UploadAndIngest(NameSeq[1], <<"t2", "t3">>, MaxRuns)
    \/ SendIngestEvent(NameSeq[1], None, MaxRuns)
    \/ SendQueryEvent("q2", None, None, MaxRuns)
    \/ \E r \in DOMAIN runs : Start(r)
    \/ \E r \in DOMAIN runs : Load(r)
    \/ \E r \in DOMAIN runs : OpenStore(r)
    \/ \E r \in DOMAIN runs : CreateCollection(r)
    \/ \E r \in DOMAIN runs, fault \in BOOLEAN : Upsert(r, fault)
    \/ \E r \in DOMAIN runs : Search(r)
    \/ \E r \in DOMAIN runs, fault \in BOOLEAN : Answer(r, fault)

Spec == Init /\ [][Next]_vars

\* The ingest pipeline alone, over the documents and sources of the model.
NextIngest ==
    \/ \E name \in Names, chunks \in Docs : UploadAndIngest(name, chunks, MaxIngests)
    \/ \E name \in Names : SendIngestEvent(name, None, MaxIngests)
    \/ \E r \in DOMAIN runs : Start(r)
    \/ \E r \in DOMAIN runs : Load(r)
    \/ \E r \in DOMAIN runs : OpenStore(r)
    \/ \E r \in DOMAIN runs : CreateCollection(r)
    \/ \E r \in DOMAIN runs, fault \in BOOLEAN : Upsert(r, fault)

SpecIngest == Init /\ [][NextIngest]_vars

\* The ingest pipeline for the documents of one file name, from a store
\* without a collection: the first run to open the store creates it.
NextFresh ==
    \/ \E chunks \in Docs : UploadAndIngest(NameSeq[1], chunks, MaxIngests)
    \/ SendIngestEvent(NameSeq[1], None, MaxIngests)
    \/ \E r \in DOMAIN runs : Start(r)
    \/ \E r \in DOMAIN runs : Load(r)
    \/ \E r \in DOMAIN runs : OpenStore(r)
    \/ \E r \in DOMAIN runs : CreateCollection(r)
    \/ \E r \in DOMAIN runs, fault \in BOOLEAN : Upsert(r, fault)

InitFresh == Init /\ collection = NoCollection

SpecFresh == InitFresh /\ [][NextFresh]_vars

\* The stores that ingest runs leave behind: the points of up to n completed
\* runs of _upsert, over the documents and sources of the model.
RECURSIVE StoresAfter(_)
StoresAfter(n) ==
    IF n = 0 THEN {create_collection(StoreDims)}
    ELSE LET before == StoresAfter(n - 1)
         IN  before \cup
             {[c EXCEPT !.points = upsert_vectors(@, Ids(name, chunks),
                                                  embed_texts(chunks),
                                                  Payloads(name, chunks))]
                : c \in before, name \in Names, chunks \in Docs}

InitQuery ==
    /\ now = 0
    /\ ticks = 0
    /\ fs = [p \in Paths |-> NoFile]
    /\ collection \in {NoCollection, create_collection(OtherDims)} \cup StoresAfter(MaxStored)
    /\ runs = <<>>

\* The query pipeline, over a store that ingest runs filled.
NextQuery ==
    \/ \E q \in Questions, k \in TopKChoices, f \in Filters :
          SendQueryEvent(q, k, f, MaxQueries)
    \/ \E r \in DOMAIN runs : Start(r)
    \/ \E r \in DOMAIN runs : OpenStore(r)
    \/ \E r \in DOMAIN runs : CreateCollection(r)
    \/ \E r \in DOMAIN runs : Search(r)
    \/ \E r \in DOMAIN runs, fault \in BOOLEAN : Answer(r, fault)

SpecQuery == InitQuery /\ [][NextQuery]_vars

\* No collection, a collection of another dimensionality, or the store that
\* one ingest run of a two-chunk document leaves.
InitPoll ==
    /\ InitQuery
    /\ collection \in {NoCollection, create_collection(OtherDims),
                       [create_collection(StoreDims) EXCEPT
                           !.points = upsert_vectors(@, Ids(NameSeq[1], <<"t2", "t3">>),
                                                     embed_texts(<<"t2", "t3">>),
                                                     Payloads(NameSeq[1], <<"t2", "t3">>))]}

\* Steps of the poller's clock: half its timeout and twice its timeout.
PollDelays == {PollTimeout \div 2, 2 * PollTimeout}

\* The query pipeline and the poller of its sender, as time passes.
NextPoll ==
    \/ SendQueryEvent("q2", None, None, MaxPolled)
    \/ \E r \in DOMAIN runs : Start(r)
    \/ \E r \in DOMAIN runs : OpenStore(r)
    \/ \E r \in DOMAIN runs : CreateCollection(r)
    \/ \E r \in DOMAIN runs : Search(r)
    \/ \E r \in DOMAIN runs, fault \in BOOLEAN : Answer(r, fault)
    \/ \E r \in DOMAIN runs : Poll(r)
    \/ \E d \in PollDelays : Tick(d)

\* The runs are scheduled: a step that a run can take is eventually taken.
Progress(r) ==
    \/ Start(r) \/ OpenStore(r) \/ CreateCollection(r) \/ Search(r)
    \/ \E fault \in BOOLEAN : Answer(r, fault)

SpecPoll ==
    /\ InitPoll
    /\ [][NextPoll]_vars
    /\ \A r \in 1..MaxPolled : WF_vars(Progress(r))

\* Admission of ingest events.  Sources are interchangeable for admission, so
\* a new event is for a source already seen or for the first unseen one.
SeenNames == {runs[r].data.source_id[1] : r \in DOMAIN runs}
NextNames ==
    LET unseen == {i \in DOMAIN NameSeq : NameSeq[i] \notin SeenNames}
    IN  SeenNames \cup {NameSeq[i] : i \in {j \in unseen : \A k \in unseen : j <= k}}

NextAdmit ==
    \/ \E name \in NextNames : SendIngestEvent(name, Some(name), MaxEvents)
    \/ \E r \in DOMAIN runs : Start(r)
    \/ \E d \in Delays : Tick(d)

InitAdmit == Init /\ collection = NoCollection

SpecAdmit == InitAdmit /\ [][NextAdmit]_vars

\* The end-to-end scenario: a document of three chunks is ingested for one
\* source, the source is ingested again with a shorter document, and a
\* question is asked; the runs execute side by side.
LongDoc == <<"t1", "t2", "t3">>
ScenarioDocs == {LongDoc, <<"t2">>}

NextScenario ==
    \/ \E chunks \in ScenarioDocs : UploadAndIngest(NameSeq[1], chunks, MaxScenario)
    \/ SendQueryEvent("q2", None, None, MaxScenario)
    \/ \E r \in DOMAIN runs : Start(r)
    \/ \E r \in DOMAIN runs : Load(r)
    \/ \E r \in DOMAIN runs : OpenStore(r)
    \/ \E r \in DOMAIN runs : CreateCollection(r)
    \/ \E r \in DOMAIN runs, fault \in BOOLEAN : Upsert(r, fault)
    \/ \E r \in DOMAIN runs : Search(r)
    \/ \E r \in DOMAIN runs, fault \in BOOLEAN : Answer(r, fault)

\* The store that a completed ingest run of the three-chunk document leaves.
ScenarioStore ==
    LET chunks == LongDoc
    IN  [create_collection(StoreDims) EXCEPT
            !.points = upsert_vectors(@, Ids(NameSeq[1], chunks), embed_texts(chunks),
                                      Payloads(NameSeq[1], chunks))]

\* Before the first ingestion, or after the three-chunk document was ingested.
InitScenario ==
    /\ now = 0
    /\ ticks = 0
    /\ fs = [p \in Paths |-> NoFile]
    /\ collection \in {NoCollection, ScenarioStore}
    /\ runs = <<>>

SpecScenario == InitScenario /\ [][NextScenario]_vars

(* ============================== properties ============================= *)
IngestRuns == {r \in DOMAIN runs : runs[r].fn = "ingest"}
QueryRuns == {r \in DOMAIN runs : runs[r].fn = "query"}
Loaded(r) == r \in IngestRuns /\ LoadStep \in DOMAIN runs[r].memo
Completed(r) == r \in DOMAIN runs /\ runs[r].status = "Completed"
SourceOf(r) == runs[r].memo[LoadStep].sources_id
ChunksOf(r) == runs[r].memo[LoadStep].chunks

\* The points of one source: id -> payload.
PointsOf(coll, source_id) ==
    [id \in {i \in DOMAIN coll.points : coll.points[i].payload.source = source_id}
        |-> coll.points[id].payload]

\* C1.  Idempotent upsert: when an ingest run completes for a source and a
\* chunk sequence that an earlier run has already ingested, and no completed
\* run ingested other chunks for that source, the step leaves the points of
\* the source as they were: the same ids, so the same number of points, each
\* with the same payload (source, text).
C1_IdempotentUpsert ==
    [][\A r \in IngestRuns :
          (/\ runs[r].status = "Running"
           /\ runs'[r].status = "Completed"
           /\ \E o \in IngestRuns : /\ Completed(o)
                                    /\ SourceOf(o) = SourceOf(r)
                                    /\ ChunksOf(o) = ChunksOf(r)
           /\ \A q \in IngestRuns : (Completed(q) /\ SourceOf(q) = SourceOf(r))
                                        => ChunksOf(q) = ChunksOf(r))
          => PointsOf(collection', SourceOf(r)) = PointsOf(collection, SourceOf(r))]_vars

\* Two runs have completed for the same source and the same two chunks, and
\* the source has exactly two points.
C1_Witness ==
    \E r, o \in IngestRuns :
        /\ r # o
        /\ Completed(r) /\ Completed(o)
        /\ SourceOf(r) = SourceOf(o)
        /\ ChunksOf(r) = ChunksOf(o)
        /\ Len(ChunksOf(r)) = 2
        /\ Cardinality(DOMAIN PointsOf(collection, SourceOf(r))) = 2

\* C2.  Deterministic, collision-free identity: the ids that _upsert builds
\* for one source are pairwise different over the chunk indices, and two runs
\* for the same source build the same id for the same index.
C2_DeterministicIdentity ==
    \A r, o \in IngestRuns :
        /\ \A i, j \in DOMAIN runs[r].ids : i # j => runs[r].ids[i] # runs[r].ids[j]
        /\ (Loaded(r) /\ Loaded(o) /\ SourceOf(r) = SourceOf(o))
              => \A i \in DOMAIN runs[r].ids \cap DOMAIN runs[o].ids :
                     runs[r].ids[i] = runs[o].ids[i]

\* Two runs for one source have built ids, one of them for two chunks, after
\* the collection has taken points.
C2_Witness ==
    \E r, o \in IngestRuns :
        /\ r # o
        /\ Loaded(r) /\ Loaded(o)
        /\ SourceOf(r) = SourceOf(o)
        /\ Len(runs[r].ids) = 2
        /\ Len(runs[o].ids) >= 1
        /\ Completed(r) /\ Completed(o)

Mismatched == collection.exists /\ collection.dims # StoreDims

\* An execution of OpenStore by run r: the constructor's check is made.
Opens(r) ==
    /\ AtStep(r, UpsertStep) \/ AtStep(r, SearchStep)
    /\ runs[r].sub = "begin"
    /\ runs'[r].execs # runs[r].execs

\* C7, as claimed.  Dimension mismatch is an error: no run ever has an open
\* store on a collection whose dimensionality is not the one it asked for,
\* since the construction fails with DimensionMismatch.
C7_MismatchFailsConstruction ==
    \A r \in DOMAIN runs : runs[r].sub = "opened" => ~Mismatched

\* C7, amended.  When the collection exists with another dimensionality, the
\* construction of QdrantStorage returns without an error and leaves the
\* collection as it is; the collection is never recreated or resized, and no
\* point is ever written into it.
C7_MismatchIsSilent ==
    /\ [](Mismatched => collection.points = <<>>)
    /\ [][Mismatched => collection' = collection]_vars
    /\ [][\A r \in DOMAIN runs :
             (Mismatched /\ Opens(r)) => runs'[r].sub = "opened"]_vars

\* A run holds an open store on a collection of another dimensionality.
C7_Witness ==
    \E r \in DOMAIN runs : runs[r].sub = "opened" /\ Mismatched

\* C9, as claimed.  Load failure is fatal and never retried: the Load step
\* of a run is executed at most once, and a run that failed in Load has not
\* executed Embed-and-upsert.
C9_LoadNeverRetried ==
    \A r \in IngestRuns :
        /\ Count(runs[r], LoadStep) <= 1
        /\ (runs[r].status = "Failed" /\ ~Loaded(r)) => Count(runs[r], UpsertStep) = 0

StepNames == {LoadStep, UpsertStep, SearchStep}

\* C8.  Step memoization: a step of a run that has completed is never
\* executed again and keeps its result, whatever fails and is retried after
\* it; the retried Embed-and-upsert works on the memoized result of Load
\* (its ids are those of the memoized source and chunks, one per chunk), and
\* a failure after Embed-and-search does not run the search again.
C8_StepMemoization ==
    /\ [][\A r \in DOMAIN runs : \A step \in StepNames :
             step \in DOMAIN runs[r].memo
                => /\ Count(runs'[r], step) = Count(runs[r], step)
                   /\ step \in DOMAIN runs'[r].memo
                   /\ runs'[r].memo[step] = runs[r].memo[step]]_vars
    /\ [](\A r \in IngestRuns :
             runs[r].ids # <<>>
                => /\ Loaded(r)
                   /\ Count(runs[r], LoadStep) >= 1
                   /\ Len(runs[r].ids) = Len(ChunksOf(r)))
    /\ [](\A r \in QueryRuns :
             (SearchStep \in DOMAIN runs[r].memo /\ runs[r].status # "Pending")
                => Count(runs[r], SearchStep) >= 1)

\* An ingest run is retrying Embed-and-upsert after a failure, with Load
\* executed once, while a query run is retrying the work after
\* Embed-and-search, with the search executed once.
C8_Witness ==
    /\ \E r \in IngestRuns :
          /\ Loaded(r)
          /\ Count(runs[r], UpsertStep) = 2
          /\ Count(runs[r], LoadStep) = 1
    /\ \E q \in QueryRuns :
          /\ SearchStep \in DOMAIN runs[q].memo
          /\ runs[q].attempts = 1
          /\ Count(runs[q], SearchStep) = 1

Searched(r) == r \in QueryRuns /\ SearchStep \in DOMAIN runs[r].memo
QueryVector(r) == Embedding(runs[r].data.question)
Found(r) == runs[r].results
FoundIds(r) == {Found(r)[i].id : i \in DOMAIN Found(r)}
Similarity(id, r) == Dot(collection.points[id].vector, QueryVector(r))
Min(a, b) == IF a <= b THEN a ELSE b

\* C5.  Search ordering: a search returns min(top_k, number of stored
\* points) different stored points, in descending order of similarity to the
\* query, none of the points left out being more similar than one returned;
\* contexts holds the payload text of each returned point, in that order.
C5_SearchOrdering ==
    \A r \in QueryRuns :
        Searched(r) =>
            /\ Len(Found(r)) = Min(TopK(runs[r].data), Cardinality(DOMAIN collection.points))
            /\ Cardinality(FoundIds(r)) = Len(Found(r))
            /\ \A i \in DOMAIN Found(r) :
                  /\ Found(r)[i].id \in DOMAIN collection.points
                  /\ Found(r)[i].score = Similarity(Found(r)[i].id, r)
                  /\ \A j \in DOMAIN Found(r) :
                        i < j => Found(r)[i].score >= Found(r)[j].score
                  /\ \A o \in DOMAIN collection.points \ FoundIds(r) :
                        Similarity(o, r) <= Found(r)[i].score
            /\ Len(runs[r].memo[SearchStep].contexts) = Len(Found(r))
            /\ \A i \in DOMAIN Found(r) :
                  runs[r].memo[SearchStep].contexts[i]
                      = collection.points[Found(r)[i].id].payload.text

\* Three points of three different similarities are stored and a search with
\* top_k = 2 has returned the two most similar, the better one first.
C5_Witness ==
    \E r \in QueryRuns :
        /\ Searched(r)
        /\ TopK(runs[r].data) = 2
        /\ Cardinality(DOMAIN collection.points) = 3
        /\ Cardinality({Similarity(id, r) : id \in DOMAIN collection.points}) = 3
        /\ Len(Found(r)) = 2
        /\ Found(r)[1].score > Found(r)[2].score

\* C6, as claimed.  Source filter: a search made for an event that names a
\* source_id returns only points of that source.
C6_SourceFilter ==
    \A r \in QueryRuns :
        (Searched(r) /\ runs[r].data.source_id # None)
            => \A i \in DOMAIN Found(r) :
                   Found(r)[i].payload.source = runs[r].data.source_id[1]

\* C6, amended.  search_vectors applies no source filter: a search made for
\* an event that names a source_id ranks the points of every source, so a
\* point of another source is returned whenever it is among the top_k of the
\* whole collection (always, when at most top_k points are stored), and its
\* text is one of the contexts.
C6_NoSourceFilter ==
    \A r \in QueryRuns :
        (Searched(r) /\ runs[r].data.source_id # None)
            => \A o \in DOMAIN collection.points :
                   (\/ Cardinality(DOMAIN collection.points) <= TopK(runs[r].data)
                    \/ \E i \in DOMAIN Found(r) : Similarity(o, r) > Found(r)[i].score)
                      => /\ o \in FoundIds(r)
                         /\ collection.points[o].payload.text
                                \in Range(runs[r].memo[SearchStep].contexts)

\* The collection holds points of two sources and a search for an event that
\* names one of them has returned a point of the other.
C6_Witness ==
    \E r \in QueryRuns :
        /\ Searched(r)
        /\ runs[r].data.source_id # None
        /\ \E id \in DOMAIN collection.points :
              collection.points[id].payload.source = runs[r].data.source_id[1]
        /\ \E i \in DOMAIN Found(r) :
              Found(r)[i].payload.source # runs[r].data.source_id[1]

Terminal(r) == runs[r].status \in {"Completed", "Failed"}

\* C10.  Exactly one terminal state, observed faithfully: the status of a
\* run is Pending, Running, Completed or Failed; once Completed or Failed it
\* stays so, with the same output; every run of an event that was sent ends
\* Completed or Failed; the poller has returned only for a run whose status
\* is a completed one, and then the run's output; it has raised "Run ended
\* with status" only for a Failed or Cancelled run, naming that status; and
\* for a run still Pending or Running it is polling or has timed out.
C10_TerminalState ==
    /\ [](\A r \in DOMAIN runs :
             /\ runs[r].status \in {"Pending", "Running", "Completed", "Failed"}
             /\ runs[r].poll = "returned"
                   => /\ runs[r].status \in CompletedStatuses
                      /\ runs[r].polled = runs[r].output
             /\ runs[r].poll = "RuntimeError"
                   => /\ runs[r].status \in FailedStatuses
                      /\ runs[r].polled = [error |-> Some(runs[r].status)]
             /\ runs[r].status \in {"Pending", "Running"}
                   => runs[r].poll \in {"none", "polling", "TimeoutError"}
             /\ runs[r].status = "Completed" <=> runs[r].output # Null)
    /\ [][\A r \in DOMAIN runs :
             Terminal(r) => /\ runs'[r].status = runs[r].status
                            /\ runs'[r].output = runs[r].output]_vars
    /\ \A r \in 1..MaxPolled : (r \in DOMAIN runs) ~> (r \in DOMAIN runs /\ Terminal(r))

\* The poller of a completed query run has returned its output, which counts
\* two contexts.
C10_Witness ==
    \E r \in QueryRuns :
        /\ runs[r].status = "Completed"
        /\ runs[r].poll = "returned"
        /\ runs[r].polled = runs[r].output
        /\ runs[r].output.num_contexts = 2

Pending(r) == r \in IngestRuns /\ runs[r].status = "Pending"
StartedRuns == {r \in IngestRuns : Started(r)}
DistinctSources == Cardinality({Key(runs[r]) : r \in IngestRuns}) = Cardinality(IngestRuns)

\* C3, as claimed.  Throttle enforcement: no more than 2 ingest runs start
\* within one minute of each other, whatever their sources; so with 5 events
\* for 5 sources submitted in the first minute, no more than 2 have started
\* in that minute.
C3_ThrottleEnforced ==
    /\ \A r \in StartedRuns :
          Cardinality({o \in StartedRuns :
                          /\ runs[o].started <= runs[r].started
                          /\ runs[r].started - runs[o].started < ThrottlePeriod})
             <= ThrottleCount
    /\ (Cardinality(IngestRuns) = 5 /\ DistinctSources /\ now < ThrottlePeriod)
          => Cardinality(StartedRuns) <= ThrottleCount

\* C3, amended.  rag_ingest_pdf is registered without a throttle: no ingest
\* event is deferred to keep the starts per minute down, every pending event
\* may start at once however many runs started in the last minute; so all 5
\* of 5 events submitted within one minute may start within that minute.
C3_NoThrottle ==
    \A r \in IngestRuns :
        Pending(r) =>
            /\ ThrottleOK(r)
            /\ Cardinality(StartedWithin(ThrottlePeriod, Keys)) >= ThrottleCount
                  => ENABLED Start(r)

\* Five events for five sources were submitted and all five runs have started
\* in the same minute.
C3_Witness ==
    /\ Cardinality(IngestRuns) = 5
    /\ DistinctSources
    /\ now < ThrottlePeriod
    /\ Cardinality(StartedRuns) = 5

\* C4, as claimed.  Per-key rate limit: two ingest runs for the same
\* source_id never start less than 2 hours apart.
C4_RateLimitEnforced ==
    \A r, o \in StartedRuns :
        (r # o /\ Key(runs[r]) = Key(runs[o]) /\ runs[o].started <= runs[r].started)
            => runs[r].started - runs[o].started >= RateLimitPeriod

\* C4, amended.  rag_ingest_pdf is registered without a rate limit: a second
\* event for a source_id is not held back until 2 hours have passed since the
\* first admission, it may start at once; and it is not dropped either: an
\* event that was sent keeps its run, which stays Pending until it starts.
C4_NoRateLimit ==
    /\ [](\A r \in IngestRuns :
             Pending(r) =>
                 /\ RateLimitOK(r)
                 /\ StartedWithin(RateLimitPeriod, {Key(runs[r])}) # {} => ENABLED Start(r))
    /\ [][\A r \in DOMAIN runs :
             /\ r \in DOMAIN runs'
             /\ runs'[r].data = runs[r].data
             /\ Pending(r) => runs'[r].status \in {"Pending", "Running"}]_vars

\* Two runs for one source_id have started 10 seconds apart.
C4_Witness ==
    \E r, o \in StartedRuns :
        /\ r # o
        /\ Key(runs[r]) = Key(runs[o])
        /\ runs[r].started - runs[o].started = 10

\* The step of run r in which _upsert returns and the run completes.
Completes(r) ==
    /\ r \in IngestRuns
    /\ runs[r].status = "Running"
    /\ runs'[r].status = "Completed"

\* C11.  Ingest count matches what is persisted: a run reports a count only
\* when it has completed, and the count is the number n of chunks of its
\* document; the step that completes it writes n points with n different
\* ids, the point of chunk i carrying the run's source_id and the text of
\* chunk i, and touches no other point; so a source that had no point before
\* has exactly n points afterwards.
C11_IngestCount ==
    /\ [](\A r \in IngestRuns :
             IF Completed(r)
             THEN /\ runs[r].output = [ingested |-> Len(ChunksOf(r))]
                  /\ runs[r].memo[UpsertStep] = runs[r].output
                  /\ Len(runs[r].ids) = runs[r].output.ingested
             ELSE runs[r].output = Null)
    /\ [][\A r \in DOMAIN runs :
             Completes(r) =>
                 LET n == Len(ChunksOf(r))
                     ids == runs'[r].ids
                     old == collection.points
                     new == collection'.points
                 IN  /\ runs'[r].output.ingested = n
                     /\ Cardinality(Range(ids)) = n
                     /\ \A i \in 1..n :
                           /\ ids[i] \in DOMAIN new
                           /\ new[ids[i]].payload =
                                  [source |-> SourceOf(r), text |-> ChunksOf(r)[i]]
                     /\ DOMAIN new = DOMAIN old \cup Range(ids)
                     /\ \A id \in DOMAIN old \ Range(ids) : new[id] = old[id]
                     /\ (DOMAIN PointsOf(collection, SourceOf(r)) = {})
                           => Cardinality(DOMAIN PointsOf(collection', SourceOf(r))) = n]_vars

\* A run over the document of three chunks has completed with {ingested: 3}
\* and its source has three points, one per chunk text.
C11_Witness ==
    \E r \in IngestRuns :
        /\ Completed(r)
        /\ Len(ChunksOf(r)) = 3
        /\ runs[r].output = [ingested |-> 3]
        /\ Cardinality(DOMAIN PointsOf(collection, SourceOf(r))) = 3
        /\ {collection.points[id].payload.text : id \in DOMAIN collection.points}
               = {"t1", "t2", "t3"}
        /\ runs[r].execs[UpsertStep] > 1

\* C12, as claimed.  Lazy collection creation is safe under concurrent runs:
\* a run that found the collection absent and goes on to its create call
\* always gets the store open, its step never fails there; and the collection
\* is created once: a create call that succeeds finds no collection and makes
\* an empty one of the dimensionality asked for.
C12_LazyCreationSafe ==
    [][\A r \in DOMAIN runs :
          (runs[r].sub = "create" /\ runs'[r] # runs[r])
              => /\ runs'[r].sub = "opened"
                 /\ runs'[r].status = "Running"
                 /\ runs'[r].attempts = runs[r].attempts
                 /\ ~collection.exists
                 /\ collection' = create_collection(StoreDims)]_vars

\* The length of the longest document of the scenario.
MaxChunks == Len(LongDoc)

\* The points left over from a longer ingestion of a source: those whose
\* index is past the end of a document that a completed run ingested for it.
Leftover ==
    {id \in DOMAIN collection.points :
        \E o \in IngestRuns, j \in 0..(MaxChunks - 1) :
            /\ Completed(o)
            /\ j >= Len(ChunksOf(o))
            /\ id = PointId(SourceOf(o), j)}

\* The step of run q in which search_vectors returns.
Searches(q) ==
    /\ q \in QueryRuns
    /\ ~Searched(q)
    /\ SearchStep \in DOMAIN runs'[q].memo

\* C13.  Ingestion never deletes: no step removes a point id from the
\* collection; the step that completes an ingest run of m chunks leaves every
\* point of index m or more of its source as it was, text included; and a
\* search made afterwards returns such a left-over point, its old text among
\* the contexts, whenever it is among the top_k of the collection.
C13_NeverDeletes ==
    /\ [][DOMAIN collection.points \subseteq DOMAIN collection'.points]_vars
    /\ [][\A r \in DOMAIN runs :
             Completes(r) =>
                 \A j \in Len(ChunksOf(r))..(MaxChunks - 1) :
                     LET id == PointId(SourceOf(r), j)
                     IN  id \in DOMAIN collection.points
                            => /\ id \in DOMAIN collection'.points
                               /\ collection'.points[id] = collection.points[id]]_vars
    /\ [][\A q \in DOMAIN runs :
             Searches(q) =>
                 \A id \in Leftover :
                     (\/ Cardinality(DOMAIN collection.points) <= TopK(runs[q].data)
                      \/ \E i \in DOMAIN runs'[q].results :
                            Similarity(id, q) > runs'[q].results[i].score)
                        => /\ \E i \in DOMAIN runs'[q].results : runs'[q].results[i].id = id
                           /\ collection.points[id].payload.text
                                  \in Range(runs'[q].memo[SearchStep].contexts)]_vars

\* The source that had three points was ingested again with one chunk by the
\* only ingest run, and a search made after that returned all three points:
\* the new text of index 0 and the old texts of indices 1 and 2.
C13_Witness ==
    \E r \in IngestRuns, q \in QueryRuns :
        /\ IngestRuns = {r}
        /\ Completed(r)
        /\ ChunksOf(r) = <<"t2">>
        /\ Searched(q)
        /\ Cardinality(Leftover) = 2
        /\ FoundIds(q) = DOMAIN collection.points
        /\ Range(runs[q].memo[SearchStep].contexts) = {"t2", "t3"}
        /\ Len(runs[q].memo[SearchStep].contexts) = 3
        /\ collection.points[PointId(SourceOf(r), 2)].payload.text = "t3"

====
